---- MODULE Spec2Model ----
(***************************************************************************)
(* State-machine model of the ZoBuilder bot backend:                       *)
(*   - database.py     : the User Ledger over the hosted `users` table     *)
(*   - auth_service.py : the ZoAuthService wrapper of the passport SDK     *)
(* Every storage call and every await is one atomic step; the code between *)
(* two such calls is folded into the step of the call that follows it.     *)
(***************************************************************************)
EXTENDS Integers, Sequences, FiniteSets, TLC

\* ------------------------------------------------------------------ bounds
MaxCalls == 3      \* calls started in one behaviour

Procs == {"p1", "p2"}

\* The usernames of the rows of the ledger specifications' initial table, in
\* storage order; the row of UserNames[i] has id i.
UserNames == <<"a", "b", "c">>

\* A text value is a sequence of characters.  NULL is the SQL NULL / Python
\* None of a text column; no input text equals it.
NULL == <<"NULL">>
UserName(i) == <<UserNames[i]>>

\* Arguments the callers pass: ids 1 and 2 have rows and id 9 has none; "z"
\* is nobody's username.
InputIds == {1, 2, 9}
InputNames == {<<"b">>, <<"@", "b">>, <<"@", "@", "c">>, <<"z">>}

Range(s) == {s[i] : i \in DOMAIN s}

VARIABLES
    users,       \* the `users` table: rows in storage order
    clock,       \* datetime.datetime.now()
    calls,       \* number of calls started so far
    pc,          \* per caller: position in the running call
    op,          \* per caller: the running call and its arguments
    loc,         \* per caller: the call's local variables
    ret,         \* per caller: the value returned
    wrote,       \* history: the running call has completed a storage write
    failed,      \* history: a storage call of the running call raised
    clean,       \* history: no other caller wrote the table since the call began
    pre,         \* history: the table when the call began
    after,       \* history: the call began after a call of its key had succeeded
    succeeded    \* history: keys (operation, arguments) of the calls that succeeded

ledgerVars == <<users, clock, calls, pc, op, loc, ret, wrote, failed, clean,
                pre, after, succeeded>>

VARIABLES
    client_key,  \* config.ZO_CLIENT_KEY is set
    sdk,         \* ZoAuthService._sdk: 0 is None, else the index of a session
    sessions,    \* the ZoPassportSDK objects constructed so far: their states
    acalls,      \* number of ZoAuthService calls started so far
    apc,         \* per coroutine: the await it is suspended at
    aop,         \* per coroutine: the running call and its arguments
    aloc,        \* per coroutine: the session its pending await is on
    aret,        \* per coroutine: how the call ended, and with what
    areq,        \* per coroutine: the provider request it issued
    aerr,        \* history: the text of the exception raised in the call
    aprov        \* history: the result the provider returned to the call

authVars == <<client_key, sdk, sessions, acalls, apc, aop, aloc, aret, areq,
              aerr, aprov>>

vars == <<ledgerVars, authVars>>

\* ------------------------------------------------------- storage (supabase)
\* select("*").eq(col, v).execute().data
Select(tbl, col, v) == SelectSeq(tbl, LAMBDA r : r[col] = v)

\* update({setcol: val}).eq(col, v).execute(): every matching row is updated
UpdateEq(tbl, col, v, setcol, val) ==
    [i \in DOMAIN tbl |->
        IF tbl[i][col] = v THEN [tbl[i] EXCEPT ![setcol] = val] ELSE tbl[i]]

\* Columns the insert of get_or_create_user leaves to the schema defaults.
SchemaDefaults ==
    [github_username |-> NULL, wallet_address |-> NULL, builder_score |-> 0,
     nominations_received |-> 0, nominations_given |-> <<>>,
     telegram_messages |-> 0, telegram_replies |-> 0,
     github_commits |-> 0, github_prs |-> 0, github_issues |-> 0]

\* new_user of get_or_create_user, completed by the schema defaults
new_user(user_id, username, first_name, now) ==
    [id |-> user_id, username |-> username, first_name |-> first_name,
     created_at |-> now] @@ SchemaDefaults

\* `id` is the primary key of `users`: an insert of a present id raises.
InsertOk(tbl, row) == Select(tbl, "id", row.id) = <<>>

_map_user_from_db(db_row) ==
    [user_id |-> db_row.id,
     username |-> db_row.username,
     first_name |-> db_row.first_name,
     github_username |-> db_row.github_username,
     wallet_address |-> db_row.wallet_address,
     builder_score |-> db_row.builder_score,
     created_at |-> db_row.created_at,
     nominations_received |-> db_row.nominations_received,
     nominations_given |-> db_row.nominations_given,
     telegram_activity |-> [messages |-> db_row.telegram_messages,
                            replies |-> db_row.telegram_replies],
     github_contributions |-> [commits |-> db_row.github_commits,
                               prs |-> db_row.github_prs,
                               issues |-> db_row.github_issues]]

\* An Optional[...] value is a sequence of length 0 (None) or 1.
FirstMapped(data) == IF data = <<>> THEN <<>> ELSE <<_map_user_from_db(data[1])>>

\* username[1:] if username.startswith("@")
StripAt(name) == IF Len(name) > 0 /\ Head(name) = "@" THEN Tail(name) ELSE name

\* The lookups catch every exception and return None; ok = FALSE is a storage
\* call that raised.
get_user(tbl, user_id, ok) ==
    IF ok THEN FirstMapped(Select(tbl, "id", user_id)) ELSE <<>>

get_user_by_username(tbl, username, ok) ==
    IF ok THEN FirstMapped(Select(tbl, "username", StripAt(username))) ELSE <<>>

get_user_by_github_username(tbl, github_username, ok) ==
    IF ok THEN FirstMapped(Select(tbl, "github_username", github_username)) ELSE <<>>

\* ------------------------------------------------------------ call frames
NoOp == [name |-> "none"]
NoLoc == [none |-> TRUE]
NoRet == [none |-> TRUE]

\* The calls whose frames record the table they began with.
Snapshotted == {"update_telegram_activity", "update_github_contribution"}

Idle(p) == pc[p] = "idle" /\ calls < MaxCalls

\* Entering a call: the call's frame and its history variables.  A caller's
\* op, ret and history keep describing its last call until it enters the next.
Enter(p, o, key) ==
    /\ calls' = calls + 1
    /\ op' = [op EXCEPT ![p] = o]
    /\ after' = [after EXCEPT ![p] = key \in succeeded]
    /\ pre' = [pre EXCEPT ![p] = IF o.name \in Snapshotted THEN users ELSE <<>>]

\* History of a step of caller p, read off the table before and after it.
Track(p, entering) ==
    /\ wrote' = [wrote EXCEPT ![p] = (~entering /\ @) \/ users' # users]
    /\ clean' = [q \in Procs |->
          IF q = p THEN entering \/ clean[q]
          ELSE IF op[q].name \in Snapshotted THEN clean[q] /\ users' = users
          ELSE clean[q]]

Fail(p, entering, ok) ==
    failed' = [failed EXCEPT ![p] = (~entering /\ @) \/ ~ok]

\* return r
Finish(p, r) ==
    /\ pc' = [pc EXCEPT ![p] = "idle"]
    /\ ret' = [ret EXCEPT ![p] = r]
    /\ loc' = [loc EXCEPT ![p] = NoLoc]

\* continue at label l with locals v
Goto(p, l, v) ==
    /\ pc' = [pc EXCEPT ![p] = l]
    /\ loc' = [loc EXCEPT ![p] = v]
    /\ ret' = [ret EXCEPT ![p] = NoRet]

\* ---------------------------------------------------------- add_nomination
NomError(text, name) ==
    [status |-> "error", text |-> text, name |-> name, nominee |-> <<>>]

NomSuccess(name, nominee) ==
    [status |-> "success", text |-> "You have successfully nominated @",
     name |-> name, nominee |-> nominee]

\* lines 165-170: strip one "@", read the nominator
AddNominationStart(p, nominator_id, raw_username, ok) ==
    LET nominee_username == StripAt(raw_username)
        nominator == get_user(users, nominator_id, ok)
    IN  /\ Idle(p)
        /\ Enter(p, [name |-> "add_nomination", nominator_id |-> nominator_id,
                     nominee_username |-> raw_username],
                 <<"add_nomination", nominator_id, raw_username>>)
        /\ users' = users
        /\ IF nominator = <<>>
           THEN Finish(p, NomError(
                    "You must set up your profile before nominating others", NULL))
           ELSE Goto(p, "an_nominee", [nominee_username |-> nominee_username,
                                       nominator |-> nominator[1]])
        /\ Track(p, TRUE)
        /\ UNCHANGED authVars
        /\ Fail(p, TRUE, ok)
        /\ UNCHANGED <<clock, succeeded>>

\* Mutant: the duplicate check never fires.
already_nominated_never(nominee_username, nominations_given) == FALSE

\* nominee_username in nominations_given
already_nominated(nominee_username, nominations_given) ==
    nominee_username \in Range(nominations_given)

\* Mutant: the duplicate check runs after the first write.
AddNominationNomineeLateCheck(p, ok) ==
    LET l == loc[p]
        nominee == get_user_by_username(users, l.nominee_username, ok)
        nominations_given == l.nominator.nominations_given
    IN  /\ pc[p] = "an_nominee"
        /\ IF nominee = <<>>
           THEN /\ users' = users
                /\ Finish(p, NomError(
                    "User @ not found. Make sure they have set up their profile.",
                    l.nominee_username))
           ELSE IF op[p].nominator_id = nominee[1].user_id
           THEN /\ users' = users
                /\ Finish(p, NomError("You cannot nominate yourself", NULL))
           ELSE IF l.nominee_username \in Range(nominations_given)
           THEN /\ users' = UpdateEq(users, "id", op[p].nominator_id,
                        "nominations_given",
                        Append(nominations_given, l.nominee_username))
                /\ Finish(p, NomError("You have already nominated @",
                                      l.nominee_username))
           ELSE /\ users' = users
                /\ Goto(p, "an_given", l @@ [nominee |-> nominee[1]])
        /\ Track(p, FALSE)
        /\ UNCHANGED authVars
        /\ Fail(p, FALSE, ok)
        /\ UNCHANGED <<clock, calls, op, pre, after, succeeded>>

\* lines 172-181: read the nominee, then the three validation checks
AddNominationNominee(p, ok) ==
    LET l == loc[p]
        nominee == get_user_by_username(users, l.nominee_username, ok)
        nominations_given == l.nominator.nominations_given
    IN  /\ pc[p] = "an_nominee"
        /\ users' = users
        /\ IF nominee = <<>>
           THEN Finish(p, NomError(
                    "User @ not found. Make sure they have set up their profile.",
                    l.nominee_username))
           ELSE IF op[p].nominator_id = nominee[1].user_id
           THEN Finish(p, NomError("You cannot nominate yourself", NULL))
           ELSE IF already_nominated(l.nominee_username, nominations_given)
           THEN Finish(p, NomError("You have already nominated @", l.nominee_username))
           ELSE Goto(p, "an_given", l @@ [nominee |-> nominee[1]])
        /\ Track(p, FALSE)
        /\ UNCHANGED authVars
        /\ Fail(p, FALSE, ok)
        /\ UNCHANGED <<clock, calls, op, pre, after, succeeded>>

\* nominations_given + [nominee_username]
new_nominations(nominations_given, nominee_username) ==
    Append(nominations_given, nominee_username)

\* current_received + 1
new_received(current_received) == current_received + 1

\* lines 185-186: the first write
AddNominationGiven(p, ok) ==
    LET l == loc[p]
    IN  /\ pc[p] = "an_given"
        /\ IF ok
           THEN /\ users' = UpdateEq(users, "id", op[p].nominator_id,
                        "nominations_given",
                        new_nominations(l.nominator.nominations_given,
                                        l.nominee_username))
                /\ Goto(p, "an_received", l)
           ELSE /\ users' = users
                /\ Finish(p, NomError("Database error", NULL))
        /\ Track(p, FALSE)
        /\ UNCHANGED authVars
        /\ Fail(p, FALSE, ok)
        /\ UNCHANGED <<clock, calls, op, pre, after, succeeded>>

\* lines 189-190: the second write
AddNominationReceived(p, ok) ==
    LET l == loc[p]
    IN  /\ pc[p] = "an_received"
        /\ IF ok
           THEN /\ users' = UpdateEq(users, "id", l.nominee.user_id,
                        "nominations_received",
                        new_received(l.nominee.nominations_received))
                /\ Goto(p, "an_reread", l)
           ELSE /\ users' = users
                /\ Finish(p, NomError("Database error", NULL))
        /\ Track(p, FALSE)
        /\ UNCHANGED authVars
        /\ Fail(p, FALSE, ok)
        /\ UNCHANGED <<clock, calls, op, pre, after, succeeded>>

\* lines 192-197: read the nominee again and report success
AddNominationReread(p, ok) ==
    LET updated_nominee == get_user_by_username(users, loc[p].nominee_username, ok)
    IN  /\ pc[p] = "an_reread"
        /\ users' = users
        /\ Finish(p, NomSuccess(loc[p].nominee_username, updated_nominee))
        /\ succeeded' = succeeded \cup
               {<<"add_nomination", op[p].nominator_id, op[p].nominee_username>>}
        /\ Track(p, FALSE)
        /\ UNCHANGED authVars
        /\ Fail(p, FALSE, ok)
        /\ UNCHANGED <<clock, calls, op, pre, after>>

\* ------------------------------------------ activity and contribution tallies
TelegramKinds == {"messages", "replies"}
GithubKinds == {"commits", "prs", "issues"}

\* Arguments the callers pass: "likes" and "stars" are no counters; "g" is the
\* GitHub username the callers link and look up.
InputActivityTypes == TelegramKinds \cup {"likes"}
InputContributionTypes == GithubKinds \cup {"stars"}
InputGithubNames == {<<"g">>}

NoKey == <<"none">>

\* Mutant: the two telegram columns are swapped.
telegram_col_swapped(activity_type) ==
    IF activity_type = "messages" THEN "telegram_replies" ELSE "telegram_messages"

\* col_name = f"telegram_{activity_type}"
telegram_col(activity_type) ==
    IF activity_type = "messages" THEN "telegram_messages" ELSE "telegram_replies"

\* col_name = f"github_{contribution_type}"
github_col(contribution_type) ==
    CASE contribution_type = "commits" -> "github_commits"
      [] contribution_type = "prs" -> "github_prs"
      [] OTHER -> "github_issues"

\* current_val + 1
incremented(current_val) == current_val + 1

\* lines 125-144: reject an unknown kind, else read the user and the counter
UpdateTelegramActivityStart(p, user_id, activity_type, ok) ==
    LET user == get_user(users, user_id, ok)
        valid == activity_type \in TelegramKinds
    IN  /\ Idle(p)
        /\ Enter(p, [name |-> "update_telegram_activity", user_id |-> user_id,
                     activity_type |-> activity_type], NoKey)
        /\ users' = users
        /\ IF ~valid \/ user = <<>>
           THEN Finish(p, FALSE)
           ELSE Goto(p, "uta_write",
                     [col_name |-> telegram_col(activity_type),
                      current_val |-> user[1].telegram_activity[activity_type]])
        /\ Track(p, TRUE)
        /\ UNCHANGED authVars
        /\ Fail(p, TRUE, ~valid \/ ok)
        /\ UNCHANGED <<clock, succeeded>>

\* Mutant: the write adds one to the value stored at the time of the write.
UpdateTelegramActivityWriteAtomic(p, ok) ==
    /\ pc[p] = "uta_write"
    /\ IF ok
       THEN /\ users' = [i \in DOMAIN users |->
                   IF users[i].id = op[p].user_id
                   THEN [users[i] EXCEPT ![loc[p].col_name] = @ + 1]
                   ELSE users[i]]
            /\ Finish(p, TRUE)
       ELSE /\ users' = users
            /\ Finish(p, FALSE)
    /\ Track(p, FALSE)
    /\ UNCHANGED authVars
    /\ Fail(p, FALSE, ok)
    /\ UNCHANGED <<clock, calls, op, pre, after, succeeded>>

\* lines 146-150: write the value read plus one
UpdateTelegramActivityWrite(p, ok) ==
    /\ pc[p] = "uta_write"
    /\ IF ok
       THEN /\ users' = UpdateEq(users, "id", op[p].user_id, loc[p].col_name,
                                 incremented(loc[p].current_val))
            /\ Finish(p, TRUE)
       ELSE /\ users' = users
            /\ Finish(p, FALSE)
    /\ Track(p, FALSE)
    /\ UNCHANGED authVars
    /\ Fail(p, FALSE, ok)
    /\ UNCHANGED <<clock, calls, op, pre, after, succeeded>>

\* lines 217-230: reject an unknown kind, else look the user up by GitHub name
UpdateGithubContributionStart(p, github_username, contribution_type, ok) ==
    LET user == get_user_by_github_username(users, github_username, ok)
        valid == contribution_type \in GithubKinds
    IN  /\ Idle(p)
        /\ Enter(p, [name |-> "update_github_contribution",
                     github_username |-> github_username,
                     contribution_type |-> contribution_type], NoKey)
        /\ users' = users
        /\ IF ~valid \/ user = <<>>
           THEN Finish(p, FALSE)
           ELSE Goto(p, "ugc_write",
                     [col_name |-> github_col(contribution_type),
                      current_val |->
                          user[1].github_contributions[contribution_type]])
        /\ Track(p, TRUE)
        /\ UNCHANGED authVars
        /\ Fail(p, TRUE, ~valid \/ ok)
        /\ UNCHANGED <<clock, succeeded>>

\* lines 231-235: write the value read plus one to every row of that GitHub name
UpdateGithubContributionWrite(p, ok) ==
    /\ pc[p] = "ugc_write"
    /\ IF ok
       THEN /\ users' = UpdateEq(users, "github_username", op[p].github_username,
                                 loc[p].col_name, incremented(loc[p].current_val))
            /\ Finish(p, TRUE)
       ELSE /\ users' = users
            /\ Finish(p, FALSE)
    /\ Track(p, FALSE)
    /\ UNCHANGED authVars
    /\ Fail(p, FALSE, ok)
    /\ UNCHANGED <<clock, calls, op, pre, after, succeeded>>

\* lines 100-107
UpdateUserGithub(p, user_id, github_username, ok) ==
    /\ Idle(p)
    /\ Enter(p, [name |-> "update_user_github", user_id |-> user_id,
                 github_username |-> github_username], NoKey)
    /\ users' = IF ok THEN UpdateEq(users, "id", user_id, "github_username",
                                    github_username)
                ELSE users
    /\ Finish(p, ok)
    /\ Track(p, TRUE)
    /\ UNCHANGED authVars
    /\ Fail(p, TRUE, ok)
    /\ UNCHANGED <<clock, succeeded>>

\* ------------------------------------------------------- get_or_create_user
\* Arguments the callers pass: username is Optional.
InputNewIds == {1, 2}
InputUserNames == {<<"a">>, NULL}
InputFirstNames == {<<"x">>, <<"y">>}

\* Mutant: a present row is refreshed with the identity the caller passes.
GetOrCreateUserStartRefresh(p, user_id, username, first_name, ok) ==
    LET data == Select(users, "id", user_id)
        refreshed == [data[1] EXCEPT !.username = username,
                                     !.first_name = first_name]
    IN  /\ Idle(p)
        /\ Enter(p, [name |-> "get_or_create_user", user_id |-> user_id,
                     username |-> username, first_name |-> first_name],
                 <<"get_or_create_user", user_id>>)
        /\ IF ~ok
           THEN users' = users /\ Finish(p, <<>>) /\ clock' = clock
           ELSE IF data # <<>>
           THEN /\ users' = [i \in DOMAIN users |->
                       IF users[i].id = user_id THEN refreshed ELSE users[i]]
                /\ Finish(p, <<_map_user_from_db(refreshed)>>)
                /\ clock' = clock
           ELSE /\ users' = users
                /\ Goto(p, "goc_insert",
                        [new_user |-> new_user(user_id, username, first_name, clock)])
                /\ clock' = clock + 1
        /\ Track(p, TRUE)
        /\ UNCHANGED authVars
        /\ Fail(p, TRUE, ok)
        /\ UNCHANGED succeeded

\* lines 37-49, 55-57: read by id; return the row found, else build new_user
GetOrCreateUserStart(p, user_id, username, first_name, ok) ==
    LET data == Select(users, "id", user_id)
    IN  /\ Idle(p)
        /\ Enter(p, [name |-> "get_or_create_user", user_id |-> user_id,
                     username |-> username, first_name |-> first_name],
                 <<"get_or_create_user", user_id>>)
        /\ users' = users
        /\ IF ~ok
           THEN Finish(p, <<>>) /\ clock' = clock
           ELSE IF data # <<>>
           THEN Finish(p, <<_map_user_from_db(data[1])>>) /\ clock' = clock
           ELSE /\ Goto(p, "goc_insert",
                        [new_user |-> new_user(user_id, username, first_name, clock)])
                /\ clock' = clock + 1
        /\ Track(p, TRUE)
        /\ UNCHANGED authVars
        /\ Fail(p, TRUE, ok)
        /\ UNCHANGED succeeded

\* lines 51-57: insert; return the inserted row, or {} if the insert raised
GetOrCreateUserInsert(p, ok) ==
    LET row == loc[p].new_user
        inserted == ok /\ InsertOk(users, row)
    IN  /\ pc[p] = "goc_insert"
        /\ IF inserted
           THEN /\ users' = Append(users, row)
                /\ Finish(p, <<_map_user_from_db(row)>>)
                /\ succeeded' = succeeded \cup {<<"get_or_create_user", row.id>>}
           ELSE /\ users' = users
                /\ Finish(p, <<>>)
                /\ succeeded' = succeeded
        /\ Track(p, FALSE)
        /\ UNCHANGED authVars
        /\ Fail(p, FALSE, inserted)
        /\ UNCHANGED <<clock, calls, op, pre, after>>

\* ------------------------------------------------------------ ZoAuthService
MaxAuthCalls == 3      \* ZoAuthService calls started in one behaviour

Coros == {"c1", "c2"}

\* Arguments the callers pass, and what the provider may answer.
InputCountryCodes == {<<"+", "1">>, <<"9", "1">>}
ProviderResults ==
    {[success |-> TRUE, message |-> "ok"],
     [success |-> FALSE, message |-> "rejected by provider"]}

NoReq == [session |-> 0]
NoResult == [kind |-> "none"]
NoError == ""

\* country_code.replace("+", "")
remove_plus(country_code) == SelectSeq(country_code, LAMBDA ch : ch # "+")

\* Mutant: the exception leaves the method.
raised_to_caller(e) ==
    [kind |-> "raised", value |-> [success |-> FALSE, message |-> e]]

\* except Exception as e: return {"success": False, "message": str(e)}
caught(e) ==
    [kind |-> "returned", value |-> [success |-> FALSE, message |-> e]]

AIdle(c) == apc[c] = "idle" /\ acalls < MaxAuthCalls

AEnter(c, o) ==
    /\ acalls' = acalls + 1
    /\ aop' = [aop EXCEPT ![c] = o]
    /\ aprov' = [aprov EXCEPT ![c] = NoResult]

\* The call ends by an exception of text e, which the method turns into r.
AEndRaise(c, e, r) ==
    /\ apc' = [apc EXCEPT ![c] = "idle"]
    /\ aret' = [aret EXCEPT ![c] = r]
    /\ aerr' = [aerr EXCEPT ![c] = e]
    /\ aloc' = [aloc EXCEPT ![c] = 0]
    /\ areq' = [areq EXCEPT ![c] = NoReq]

\* lines 47-51, 62-65: strip the "+", then await the provider call on session s
IssueRequest(c, o, s) ==
    /\ apc' = [apc EXCEPT ![c] = "await_provider"]
    /\ aloc' = [aloc EXCEPT ![c] = s]
    /\ areq' = [areq EXCEPT ![c] =
           [session |-> s,
            state |-> sessions'[s],
            method |-> IF o.name = "send_otp" THEN "auth.send_otp"
                       ELSE "login_with_phone",
            country_code |-> remove_plus(o.country_code)]]
    /\ aret' = [aret EXCEPT ![c] = NoResult]
    /\ aerr' = [aerr EXCEPT ![c] = NoError]

\* send_otp / verify_otp up to their first await: get_sdk (lines 22-40) either
\* raises, suspends in initialize() of a session it has just cached, or returns
\* the cached session at once.  constructed = FALSE is a constructor of lines
\* 29-35 that raised.
OtpStart(c, name, country_code, constructed) ==
    LET o == [name |-> name, country_code |-> country_code]
    IN  /\ AIdle(c)
        /\ UNCHANGED ledgerVars
        /\ AEnter(c, o)
        /\ IF sdk = 0
           THEN IF ~client_key
                THEN /\ AEndRaise(c, "ZO_CLIENT_KEY is required",
                                  caught("ZO_CLIENT_KEY is required"))
                     /\ UNCHANGED <<sdk, sessions>>
                ELSE IF ~constructed
                THEN /\ AEndRaise(c, "ZoPassportSDK() raised",
                                  caught("ZoPassportSDK() raised"))
                     /\ UNCHANGED <<sdk, sessions>>
                ELSE /\ sessions' = Append(sessions, "initializing")
                     /\ sdk' = Len(sessions) + 1
                     /\ apc' = [apc EXCEPT ![c] = "await_init"]
                     /\ aloc' = [aloc EXCEPT ![c] = Len(sessions) + 1]
                     /\ aret' = [aret EXCEPT ![c] = NoResult]
                     /\ aerr' = [aerr EXCEPT ![c] = NoError]
                     /\ areq' = [areq EXCEPT ![c] = NoReq]
           ELSE /\ UNCHANGED <<sdk, sessions>>
                /\ IssueRequest(c, o, sdk)
        /\ UNCHANGED client_key

\* line 37 resumes: initialize() raised, or it returned and get_sdk returns
\* cls._sdk as it is by then.
OtpInitialized(c, ok) ==
    /\ apc[c] = "await_init"
    /\ UNCHANGED ledgerVars
    /\ sessions' = [sessions EXCEPT ![aloc[c]] =
           IF ok THEN "initialized" ELSE "failed"]
    /\ IF ~ok
       THEN AEndRaise(c, "initialize() raised", caught("initialize() raised"))
       ELSE IF sdk = 0
       THEN AEndRaise(c, "'NoneType' object has no attribute",
                      caught("'NoneType' object has no attribute"))
       ELSE IssueRequest(c, aop[c], sdk)
    /\ UNCHANGED <<client_key, sdk, acalls, aop, aprov>>

\* lines 51-55, 65-69 resume: the provider call returned a result or raised
OtpAnswered(c, ok, result) ==
    /\ apc[c] = "await_provider"
    /\ UNCHANGED ledgerVars
    /\ IF ok
       THEN /\ apc' = [apc EXCEPT ![c] = "idle"]
            /\ aret' = [aret EXCEPT ![c] = [kind |-> "returned", value |-> result]]
            /\ aprov' = [aprov EXCEPT ![c] = [kind |-> "returned", value |-> result]]
            /\ aloc' = [aloc EXCEPT ![c] = 0]
            /\ UNCHANGED <<aerr, areq>>
       ELSE /\ AEndRaise(c, "provider call raised",
                         caught("provider call raised"))
            /\ aprov' = aprov
    /\ UNCHANGED <<client_key, sdk, sessions, acalls, aop>>

\* lines 73-75: close() up to its await
CloseStart(c) ==
    /\ AIdle(c)
    /\ UNCHANGED ledgerVars
    /\ AEnter(c, [name |-> "close"])
    /\ aerr' = [aerr EXCEPT ![c] = NoError]
    /\ areq' = [areq EXCEPT ![c] = NoReq]
    /\ IF sdk = 0
       THEN /\ apc' = apc
            /\ aloc' = aloc
            /\ aret' = [aret EXCEPT ![c] = [kind |-> "returned", value |-> "None"]]
       ELSE /\ apc' = [apc EXCEPT ![c] = "await_close"]
            /\ aloc' = [aloc EXCEPT ![c] = sdk]
            /\ aret' = [aret EXCEPT ![c] = NoResult]
    /\ UNCHANGED <<client_key, sdk, sessions>>

\* lines 75-76 resume: the session's close() returned, or raised out of close()
CloseDone(c, ok) ==
    /\ apc[c] = "await_close"
    /\ UNCHANGED ledgerVars
    /\ apc' = [apc EXCEPT ![c] = "idle"]
    /\ aloc' = [aloc EXCEPT ![c] = 0]
    /\ IF ok
       THEN /\ sessions' = [sessions EXCEPT ![aloc[c]] = "closed"]
            /\ sdk' = 0
            /\ aret' = [aret EXCEPT ![c] = [kind |-> "returned", value |-> "None"]]
            /\ aerr' = aerr
       ELSE /\ UNCHANGED <<sdk, sessions>>
            /\ aret' = [aret EXCEPT ![c] =
                   [kind |-> "raised", value |-> "close() raised"]]
            /\ aerr' = [aerr EXCEPT ![c] = "close() raised"]
    /\ UNCHANGED <<client_key, acalls, aop, areq, aprov>>

\* ------------------------------------------------------------ initial states
FrameInit ==
    /\ calls = 0
    /\ pc = [p \in Procs |-> "idle"]
    /\ op = [p \in Procs |-> NoOp]
    /\ loc = [p \in Procs |-> NoLoc]
    /\ ret = [p \in Procs |-> NoRet]
    /\ wrote = [p \in Procs |-> FALSE]
    /\ failed = [p \in Procs |-> FALSE]
    /\ clean = [p \in Procs |-> TRUE]
    /\ pre = [p \in Procs |-> <<>>]
    /\ after = [p \in Procs |-> FALSE]
    /\ succeeded = {}

\* The table after get_or_create_user(i, UserName(i), ...) for each i, in order.
FreshUsers ==
    [i \in DOMAIN UserNames |-> new_user(i, UserName(i), UserName(i), i)]

\* No ZoAuthService call has been made.
AuthInit ==
    /\ sdk = 0
    /\ sessions = <<>>
    /\ acalls = 0
    /\ apc = [c \in Coros |-> "idle"]
    /\ aop = [c \in Coros |-> NoOp]
    /\ aloc = [c \in Coros |-> 0]
    /\ aret = [c \in Coros |-> NoResult]
    /\ areq = [c \in Coros |-> NoReq]
    /\ aerr = [c \in Coros |-> NoError]
    /\ aprov = [c \in Coros |-> NoResult]

InitNom ==
    /\ users = FreshUsers
    /\ clock = Len(UserNames) + 1
    /\ FrameInit
    /\ client_key = TRUE
    /\ AuthInit

NextNom ==
    \E p \in Procs :
        \/ \E i \in InputIds, n \in InputNames, ok \in BOOLEAN :
               AddNominationStart(p, i, n, ok)
        \/ \E ok \in BOOLEAN : AddNominationNominee(p, ok)
        \/ \E ok \in BOOLEAN : AddNominationGiven(p, ok)
        \/ \E ok \in BOOLEAN : AddNominationReceived(p, ok)
        \/ \E ok \in BOOLEAN : AddNominationReread(p, ok)

SpecNom == InitNom /\ [][NextNom]_vars

InitActivity == InitNom

NextActivity ==
    \E p \in Procs :
        \/ \E i \in InputIds, k \in InputActivityTypes, ok \in BOOLEAN :
               UpdateTelegramActivityStart(p, i, k, ok)
        \/ \E ok \in BOOLEAN : UpdateTelegramActivityWrite(p, ok)
        \/ \E g \in InputGithubNames, k \in InputContributionTypes, ok \in BOOLEAN :
               UpdateGithubContributionStart(p, g, k, ok)
        \/ \E ok \in BOOLEAN : UpdateGithubContributionWrite(p, ok)
        \/ \E i \in InputIds, g \in InputGithubNames, ok \in BOOLEAN :
               UpdateUserGithub(p, i, g, ok)

SpecActivity == InitActivity /\ [][NextActivity]_vars

InitUsers ==
    /\ users = <<>>
    /\ clock = 1
    /\ FrameInit
    /\ client_key = TRUE
    /\ AuthInit

NextUsers ==
    \E p \in Procs :
        \/ \E i \in InputNewIds, u \in InputUserNames, f \in InputFirstNames,
              ok \in BOOLEAN :
               GetOrCreateUserStart(p, i, u, f, ok)
        \/ \E ok \in BOOLEAN : GetOrCreateUserInsert(p, ok)

SpecUsers == InitUsers /\ [][NextUsers]_vars

\* The key is read from the environment once, at import.
InitAuth ==
    /\ client_key \in BOOLEAN
    /\ AuthInit
    /\ users = <<>>
    /\ clock = 1
    /\ FrameInit

NextAuth ==
    \E c \in Coros :
        \/ \E n \in {"send_otp", "verify_otp"}, cc \in InputCountryCodes,
              made \in BOOLEAN :
               OtpStart(c, n, cc, made)
        \/ \E ok \in BOOLEAN : OtpInitialized(c, ok)
        \/ \E ok \in BOOLEAN, r \in ProviderResults : OtpAnswered(c, ok, r)
        \/ CloseStart(c)
        \/ \E ok \in BOOLEAN : CloseDone(c, ok)

SpecAuth == InitAuth /\ [][NextAuth]_vars

\* ------------------------------------------------- claims on add_nomination
Finished(p, name) == pc[p] = "idle" /\ op[p].name = name

Given(i) == users[i].nominations_given

\* C1: every user's nominations_received is at least the number of users
\* whose nominations_given holds that user's username.  The claim asserts it
\* of every reachable state; it is stated here of the states in which no
\* add_nomination call is in progress.
C1_ReceivedCoversGiven ==
    (\A p \in Procs : pc[p] = "idle") =>
        \A i \in DOMAIN users :
            users[i].nominations_received >=
                Cardinality({j \in DOMAIN users :
                                users[i].username \in Range(Given(j))})

\* C2: a call add_nomination(A, B) that starts after an add_nomination(A, B)
\* returned success never reaches the increment of B's nominations_received
\* and returns status error, "You have already nominated @B".  It is stated
\* of the calls none of whose own storage calls raised.
C2_SecondNominationRejected ==
    \A p \in Procs :
        (op[p].name = "add_nomination" /\ after[p] /\ ~failed[p]) =>
            /\ pc[p] # "an_reread"
            /\ pc[p] = "idle" =>
                  /\ ret[p].status = "error"
                  /\ ret[p].text = "You have already nominated @"

\* C3: no username occurs twice in a nominations_given list.
C3_NoDuplicateNominations ==
    \A i \in DOMAIN users :
        \A j, k \in DOMAIN Given(i) : j # k => Given(i)[j] # Given(i)[k]

\* C3 witness: two overlapping calls of one nominator for one nominee have both
\* passed the duplicate check and both written the list.
C3_OverlappingSameNominee ==
    \E p, q \in Procs :
        /\ p # q
        /\ pc[p] = "an_received" /\ pc[q] = "an_received"
        /\ op[p].nominator_id = op[q].nominator_id
        /\ loc[p].nominee_username = loc[q].nominee_username

ValidationTexts ==
    {"You must set up your profile before nominating others",
     "User @ not found. Make sure they have set up their profile.",
     "You cannot nominate yourself",
     "You have already nominated @"}

\* C5: a call rejected by a validation check returns status error and no step
\* of it changed the table.
C5_RejectionWritesNothing ==
    \A p \in Procs :
        (Finished(p, "add_nomination") /\ ret[p].text \in ValidationTexts) =>
            ret[p].status = "error" /\ ~wrote[p]

\* C5 witness: a duplicate nomination was rejected after the table had been
\* written by an earlier call.
C5_DuplicateRejected ==
    \E p \in Procs :
        /\ Finished(p, "add_nomination")
        /\ ret[p].text = "You have already nominated @"
        /\ \E i \in DOMAIN users : Given(i) # <<>>

\* ------------------------------------- claims on update_telegram_activity
RowsOf(tbl, user_id) == {i \in DOMAIN tbl : tbl[i].id = user_id}

\* The column the claims name for a kind, and the table with that counter of
\* the user's row one higher.
ClaimedColumn(kind) ==
    IF kind = "messages" THEN "telegram_messages" ELSE "telegram_replies"

OneHigher(tbl, user_id, kind) ==
    [i \in DOMAIN tbl |->
        IF tbl[i].id = user_id
        THEN [tbl[i] EXCEPT ![ClaimedColumn(kind)] = @ + 1]
        ELSE tbl[i]]

\* A finished update_telegram_activity call on a user present when it began,
\* with no write of another caller since it began.
SoloTelegramCall(p) ==
    /\ Finished(p, "update_telegram_activity")
    /\ clean[p]
    /\ RowsOf(pre[p], op[p].user_id) # {}

\* C4: the call reads the counter in one storage step and writes the value it
\* read plus one in another: the read leaves the table alone and keeps the
\* stored value, and a write that reports True sets the counter to the kept
\* value plus one, whatever is stored by then.
C4_ReadThenWriteBack ==
    [][\A p \in Procs :
          /\ (pc[p] = "idle" /\ pc'[p] = "uta_write") =>
                /\ users' = users
                /\ \A i \in RowsOf(users, op'[p].user_id) :
                      loc'[p].current_val =
                          users[i][ClaimedColumn(op'[p].activity_type)]
          /\ (pc[p] = "uta_write" /\ pc'[p] = "idle" /\ ret'[p] = TRUE) =>
                \A i \in RowsOf(users, op[p].user_id) :
                    users'[i][ClaimedColumn(op[p].activity_type)] =
                        loc[p].current_val + 1]_vars

\* C4 witness: the only two calls of the behaviour began with the same table,
\* are for the same user and kind, both returned True, and the counter is one
\* above its starting value.
C4_LostIncrement ==
    /\ calls = 2
    /\ \A p \in Procs : Finished(p, "update_telegram_activity") /\ ret[p] = TRUE
    /\ \A p, q \in Procs : op[p] = op[q] /\ pre[p] = pre[q]
    /\ \A p \in Procs : users = OneHigher(pre[p], op[p].user_id,
                                          op[p].activity_type)

\* C6 as claimed: a solo call with a valid kind returns True with exactly that
\* counter one higher; with another kind it returns False and nothing changes.
C6_SoloCallEffect ==
    \A p \in Procs :
        SoloTelegramCall(p) =>
            IF op[p].activity_type \in {"messages", "replies"}
            THEN /\ ret[p] = TRUE
                 /\ users = OneHigher(pre[p], op[p].user_id, op[p].activity_type)
            ELSE /\ ret[p] = FALSE
                 /\ users = pre[p]

\* C6 amended: with a valid kind the call returns True with exactly that
\* counter one higher when both its storage calls succeed, and returns False
\* with nothing changed when one of them raises; with another kind it returns
\* False and nothing changes.
C6_SoloCallEffectUnlessStorageFails ==
    \A p \in Procs :
        SoloTelegramCall(p) =>
            IF op[p].activity_type \in {"messages", "replies"}
            THEN \/ /\ ~failed[p]
                    /\ ret[p] = TRUE
                    /\ users = OneHigher(pre[p], op[p].user_id,
                                         op[p].activity_type)
                 \/ /\ failed[p]
                    /\ ret[p] = FALSE
                    /\ users = pre[p]
            ELSE /\ ret[p] = FALSE
                 /\ users = pre[p]

\* C6 witness: a solo call with a valid kind returned True on a changed table.
C6_SoloCallCounted ==
    \E p \in Procs :
        /\ SoloTelegramCall(p)
        /\ op[p].activity_type \in {"messages", "replies"}
        /\ ret[p] = TRUE
        /\ users # pre[p]

CounterColumns ==
    {"telegram_messages", "telegram_replies", "github_commits", "github_prs",
     "github_issues", "nominations_received"}

\* C10: no step lowers a stored counter.
C10_CountersNeverDecrease ==
    [][\A i \in DOMAIN users : \A c \in CounterColumns :
          users'[i][c] >= users[i][c]]_vars

\* --------------------------------------------- claims on get_or_create_user
\* C7: a call that begins after a call for the same id returned a created row,
\* and whose storage call succeeds, writes nothing and returns the view of the
\* one stored row of that id, whose identity and created_at are the stored
\* ones; no id has two rows.
C7_RepeatedCallReturnsStoredRow ==
    /\ \A id \in InputNewIds : Cardinality(RowsOf(users, id)) <= 1
    /\ \A p \in Procs :
          (Finished(p, "get_or_create_user") /\ after[p] /\ ~failed[p]) =>
              /\ ~wrote[p]
              /\ Len(ret[p]) = 1
              /\ \E i \in RowsOf(users, op[p].user_id) :
                    /\ ret[p][1].user_id = users[i].id
                    /\ ret[p][1].username = users[i].username
                    /\ ret[p][1].first_name = users[i].first_name
                    /\ ret[p][1].created_at = users[i].created_at
                    /\ ret[p][1].nominations_received =
                           users[i].nominations_received
                    /\ ret[p][1].nominations_given = users[i].nominations_given
                    /\ ret[p][1].telegram_activity =
                           [messages |-> users[i].telegram_messages,
                            replies |-> users[i].telegram_replies]
                    /\ ret[p][1].github_contributions =
                           [commits |-> users[i].github_commits,
                            prs |-> users[i].github_prs,
                            issues |-> users[i].github_issues]

\* C7 witness: such a call passed a username and a first_name other than the
\* stored ones and got the stored ones back.
C7_RepeatedCallOtherIdentity ==
    \E p \in Procs :
        /\ Finished(p, "get_or_create_user") /\ after[p] /\ ~failed[p]
        /\ Len(ret[p]) = 1
        /\ ret[p][1].username # op[p].username
        /\ ret[p][1].first_name # op[p].first_name

\* -------------------------------------------------- claims on ZoAuthService
OtpFinished(c) == apc[c] = "idle" /\ aop[c].name \in {"send_otp", "verify_otp"}

\* C8: a finished send_otp / verify_otp call returned, never raised: if an
\* exception was raised in it, the envelope success = false with the
\* exception's text, and otherwise the provider's own result.
C8_OtpCallsAlwaysReturn ==
    \A c \in Coros :
        OtpFinished(c) =>
            /\ aret[c].kind = "returned"
            /\ IF aerr[c] # NoError
               THEN aret[c].value = [success |-> FALSE, message |-> aerr[c]]
               ELSE aprov[c].kind = "returned" /\ aret[c].value = aprov[c].value

\* C8 witness: calls have ended on a missing key or a raising initialize(),
\* and on a raising provider call.
C8_FailuresEnveloped ==
    /\ OtpFinished("c1") /\ OtpFinished("c2")
    /\ aerr["c1"] \in {"ZO_CLIENT_KEY is required", "ZoPassportSDK() raised",
                      "initialize() raised"}
    /\ aerr["c2"] = "provider call raised"

\* C9: every provider request in flight was issued on a session whose
\* initialize() had completed successfully.
C9_RequestsOnInitializedSession ==
    \A c \in Coros :
        apc[c] = "await_provider" => areq[c].state = "initialized"

====
